---- MODULE Spec2Model ----
(***************************************************************************)
(* rofi_menu: the menu/item tree of src/rofi_menu/menu.py and the script   *)
(* mode codecs of src/rofi_menu/rofi_mode.  One invocation of the script   *)
(* is one pass: the launcher sets the environment, a MetaStore is          *)
(* constructed from it, the root Menu template is built into a bound tree, *)
(* the selection / the free text is routed or the root is rendered, and    *)
(* the resulting Operation is written out.  The launcher then echoes the   *)
(* info payload of the chosen row into the next invocation.                *)
(***************************************************************************)
EXTENDS Integers, Sequences, FiniteSets, TLC

(***************************************************************************)
(* Bounds of the model.                                                    *)
(***************************************************************************)
\* nesting depth of NestedMenu items in the menu templates
MaxDepth == 2
\* number of distinct non-null states a stateful item cycles through
NumStates == 2
\* the largest return-value code the launcher passes (kb-custom-19)
MaxRetv == 28

(***************************************************************************)
(* JSON-compatible values (what json.dumps / json.loads carry), tagged so  *)
(* that values of different Python types are comparable.                   *)
(***************************************************************************)
JNull == [t |-> "null"]
JStr(s) == [t |-> "str", v |-> s]
JList(q) == [t |-> "list", v |-> q]
JInt(n) == [t |-> "int", v |-> n]

\* Python dict with string keys
EmptyDict == [k \in {} |-> JNull]
DictGet(d, k) == IF k \in DOMAIN d THEN d[k] ELSE JNull
DictSet(d, k, val) == [x \in DOMAIN d \cup {k} |-> IF x = k THEN val ELSE d[x]]
DictUpdate(d, e) == [x \in DOMAIN d \cup DOMAIN e |-> IF x \in DOMAIN e THEN e[x] ELSE d[x]]

\* F applied to val: a value computed once and used several times
With(val, F(_)) == F(val)

\* "sep".join(parts) of str.join
RECURSIVE StrJoin(_, _)
StrJoin(sep, parts) ==
    IF Len(parts) = 0 THEN ""
    ELSE IF Len(parts) = 1 THEN parts[1]
    ELSE parts[1] \o sep \o StrJoin(sep, Tail(parts))

\* seq[:n] of Python slicing
Slice(q, n) == SubSeq(q, 1, IF n < Len(q) THEN n ELSE Len(q))

(***************************************************************************)
(* Operation codes (rofi_menu.constants) and Operation.                    *)
(***************************************************************************)
OP_REFRESH_MENU == "OP_REFRESH_MENU"
OP_BACK_TO_PARENT_MENU == "OP_BACK_TO_PARENT_MENU"
OP_EXIT == "OP_EXIT"
OP_OUTPUT == "OP_OUTPUT"

NoData == [t |-> "none"]
Operation(code, data) == [code |-> code, data |-> data]

(***************************************************************************)
(* Script mode codecs.                                                     *)
(***************************************************************************)
ROFI_RETV_INITIAL_SCRIPT_CALL == "0"
ROFI_RETV_SELECTED_ENTRY == "1"
ROFI_RETV_CUSTOM_ENTRY == "2"

\* an environment variable that is not set, and one set to the empty string
Unset == [t |-> "unset"]
EmptyStr == [t |-> "text", v |-> ""]
\* text that is not base64, and text that is not JSON
NotBase64 == [t |-> "text", v |-> "%"]
NotJson == [t |-> "text", v |-> "{"]

\* the exceptions the decoding raises
DecodeError == [t |-> "error"]
ValueError == [t |-> "error", kind |-> "ValueError"]
AttributeError == [t |-> "error", kind |-> "AttributeError"]
IsError(x) == x \in {DecodeError, ValueError, AttributeError}

\* the keys of a dict, one after the other
RECURSIVE Keys(_)
Keys(S) == IF S = {} THEN <<>> ELSE LET k == CHOOSE x \in S : TRUE IN <<k>> \o Keys(S \ {k})
\* the dict a sequence of members makes, a later member replacing an earlier
RECURSIVE FromMembers(_)
FromMembers(q) ==
    IF Len(q) = 0 THEN EmptyDict
    ELSE DictSet(FromMembers(SubSeq(q, 1, Len(q) - 1)), q[Len(q)][1], q[Len(q)][2])

\* json.dumps(d): the members of the object, key by key
JsonDumps(d) == [t |-> "json", v |-> [i \in 1..Cardinality(DOMAIN d) |->
                                        <<Keys(DOMAIN d)[i], d[Keys(DOMAIN d)[i]]>>]]
\* base64.urlsafe_b64encode(s)
B64Encode(s) == [t |-> "b64", v |-> s]
\* base64.urlsafe_b64decode and json.loads; a malformed argument raises
B64Decode(s) == IF s.t = "b64" THEN s.v ELSE DecodeError
JsonLoads(s) == IF s.t = "json" THEN FromMembers(s.v) ELSE DecodeError
LoadsB64(s) == IF IsError(B64Decode(s)) THEN DecodeError ELSE JsonLoads(B64Decode(s))
\* "if rofi_data:" - the variable is set and not empty
Truthy(e) == e # Unset /\ e # EmptyStr

\* lexicographic >= of version tuples
RECURSIVE TupleGE(_, _)
TupleGE(a, b) ==
    IF Len(b) = 0 THEN TRUE
    ELSE IF Len(a) = 0 THEN FALSE
    ELSE IF a[1] # b[1] THEN a[1] > b[1]
    ELSE TupleGE(Tail(a), Tail(b))

get_rofi_mode(ver) ==
    IF TupleGE(ver, <<1, 7, 4>>) THEN "rofi_mode_174"
    ELSE IF TupleGE(ver, <<1, 6>>) THEN "rofi_mode_16"
    ELSE "rofi_mode_15"

\* parse_meta_16, had it taken an undecodable variable for an empty one
parse_meta_16_lenient(e) ==
    LET data == IF Truthy(e.ROFI_DATA) /\ ~IsError(LoadsB64(e.ROFI_DATA))
                THEN LoadsB64(e.ROFI_DATA) ELSE EmptyDict
    IN  IF e.ROFI_RETV = ROFI_RETV_SELECTED_ENTRY /\ Truthy(e.ROFI_INFO)
           /\ ~IsError(LoadsB64(e.ROFI_INFO))
        THEN DictUpdate(data, LoadsB64(e.ROFI_INFO))
        ELSE data

\* rofi_mode_16.RofiMode.parse_meta
parse_meta_16(e) ==
    LET data == IF Truthy(e.ROFI_DATA) THEN LoadsB64(e.ROFI_DATA) ELSE EmptyDict
    IN  IF IsError(data) THEN DecodeError
        ELSE IF e.ROFI_RETV = ROFI_RETV_SELECTED_ENTRY /\ Truthy(e.ROFI_INFO)
        THEN IF IsError(LoadsB64(e.ROFI_INFO)) THEN DecodeError
             ELSE DictUpdate(data, LoadsB64(e.ROFI_INFO))
        ELSE data

\* int(s) of a return-value code: the number s is the decimal text of
IntOf(s) ==
    IF \E n \in 0..MaxRetv : ToString(n) = s
    THEN JInt(CHOOSE n \in 0..MaxRetv : ToString(n) = s)
    ELSE ValueError

\* meta["ACTION"] of rofi_mode_174.RofiMode.parse_meta
action_174(rofi_retv) ==
    IF rofi_retv = ROFI_RETV_INITIAL_SCRIPT_CALL THEN JStr("INITIAL_SCRIPT_CALL")
    ELSE IF rofi_retv = ROFI_RETV_SELECTED_ENTRY THEN JStr("ENTRY_SELECTED")
    ELSE IF rofi_retv = ROFI_RETV_CUSTOM_ENTRY THEN JStr("CUSTOM_ENTRY")
    ELSE IF IsError(IntOf(rofi_retv)) THEN IntOf(rofi_retv)
    ELSE JStr("CUSTOM_KEY_" \o ToString(IntOf(rofi_retv).v - 9))

\* rofi_mode_174.RofiMode.parse_meta: the computed meta is dropped
parse_meta_174(e) ==
    LET meta0 == IF e.ROFI_RETV # ROFI_RETV_INITIAL_SCRIPT_CALL /\ Truthy(e.ROFI_DATA)
                 THEN LoadsB64(e.ROFI_DATA) ELSE EmptyDict
    IN  IF IsError(meta0) THEN DecodeError
        ELSE IF IsError(action_174(e.ROFI_RETV)) THEN action_174(e.ROFI_RETV)
        ELSE IF Truthy(e.ROFI_INFO) /\ IsError(LoadsB64(e.ROFI_INFO)) THEN DecodeError
        ELSE EmptyDict

parse_meta(mode, e) ==
    IF mode = "rofi_mode_174" THEN parse_meta_174(e) ELSE parse_meta_16(e)

\* RofiMode header lines
menu_prompt(text) == <<"prompt", text>>
menu_enable_markup == <<"markup-rows", "true">>
menu_no_input(val) == <<"no-custom", IF val THEN "true" ELSE "false">>
menu_urgent(num) == <<"urgent", ToString(num)>>
menu_active(num) == <<"active", ToString(num)>>

\* RofiMode.menu_item: the row text and its option fields
menu_item(text, icon, searchable_text, nonselectable, meta_data) ==
    [text |-> text,
     icon |-> icon,
     meta |-> searchable_text,
     nonselectable |-> IF nonselectable THEN "true" ELSE "false",
     info |-> B64Encode(JsonDumps(meta_data))]

\* RofiMode.render_menu: the header lines and the rows, joined by newlines
render_menu(header, rows) == [header |-> header, rows |-> rows]

(***************************************************************************)
(* rofi_parser.parser_1_7_4.decoder.                                       *)
(***************************************************************************)
\* get_env: os.env is looked up first, and the os module has no attribute env
get_env(e) == AttributeError

\* RETV == n, RETV being the text of the environment variable and n an int:
\* in Python a str never equals an int
StrEqInt(retv, n) == FALSE

\* get_line: sys.argv[1]
get_line(e) == e.arg

\* the ACTION of decode_script_input
decode_action(retv) ==
    IF StrEqInt(retv, 0) THEN JStr("INITIAL_CALL")
    ELSE IF StrEqInt(retv, 1) THEN JStr("ENTRY_SELECTED")
    ELSE IF StrEqInt(retv, 2) THEN JStr("CUSTOM_ENTRY")
    ELSE IF IsError(IntOf(retv)) THEN IntOf(retv)
    ELSE JStr("CUSTOM_KEY_" \o ToString(IntOf(retv).v - 9))

\* decode_script_input: (ACTION, DATA, INFO, line), or the exception raised
decode_script_input(e) ==
    IF IsError(get_env(e)) THEN get_env(e)
    ELSE IF IsError(decode_action(get_env(e).RETV)) THEN decode_action(get_env(e).RETV)
    ELSE [ACTION |-> decode_action(get_env(e).RETV),
          DATA |-> get_env(e).DATA,
          INFO |-> get_env(e).INFO,
          line |-> IF decode_action(get_env(e).RETV) # JStr("INITIAL_CALL")
                   THEN get_line(e) ELSE JNull]

(***************************************************************************)
(* MetaStore.                                                              *)
(***************************************************************************)
\* MetaStore.__init__
MetaStore(raw_script_input, rofi_version, e) ==
    [raw_script_input |-> raw_script_input,
     rofi_mode |-> get_rofi_mode(rofi_version),
     meta |-> parse_meta(get_rofi_mode(rofi_version), e)]

\* user_input, had it not looked at the metadata
user_input_raw(store) == store.raw_script_input

selected_id(ms) == DictGet(ms.meta, "id")
user_input(ms) == IF DOMAIN ms.meta = {} THEN ms.raw_script_input ELSE JNull
get_state(ms, item_id) == DictGet(ms.meta, StrJoin(".", item_id))
set_state(ms, item_id, state) ==
    IF state # JNull
    THEN [ms EXCEPT !.meta = DictSet(ms.meta, StrJoin(".", item_id), state)]
    ELSE ms
as_dict(ms) == ms.meta

(***************************************************************************)
(* Item and Menu templates (the objects the application constructs).       *)
(* An absent id (None, or the empty list, which "obj.id or ..." treats     *)
(* alike) is <<>>.  A reference to a bound object is its position in the   *)
(* tree: the root menu is <<>>, the i-th item of menu r is r \o <<i>>, and *)
(* the sub-menu of a NestedMenu is referred to by the NestedMenu's own     *)
(* position.                                                               *)
(***************************************************************************)
NoId == <<>>
NoRef == <<0>>
RootRef == <<>>

\* Item.__init__ and the class attributes of the built-in kinds
NewItem(kind, text, item_id, nonselectable) ==
    [kind |-> kind, id |-> item_id, state |-> JNull, loaded |-> FALSE,
     text |-> text, icon |-> JNull, searchable_text |-> JNull,
     nonselectable |-> nonselectable, flags |-> {}, parent_menu |-> NoRef]

Item(text, item_id) == NewItem("Item", text, item_id, FALSE)
Delimiter == NewItem("Delimiter", JStr("<span>"), NoId, TRUE)
BackItem(item_id) == NewItem("BackItem", JStr(".."), item_id, FALSE)
ExitItem(text, item_id) == NewItem("ExitItem", text, item_id, FALSE)
\* a subclass of Item whose on_select hook leaves a state (a counter)
CounterItem(text, item_id) == NewItem("CounterItem", text, item_id, FALSE)
\* NestedMenu.__init__
NestedMenu(text, menu, item_id) ==
    [kind |-> "NestedMenu", id |-> item_id, state |-> JNull, loaded |-> FALSE,
     text |-> text, icon |-> JNull, searchable_text |-> JNull,
     nonselectable |-> FALSE, flags |-> {}, parent_menu |-> NoRef,
     sub_menu |-> menu]
\* Menu.__init__
Menu(prompt, menu_items, allow_user_input) ==
    [id |-> NoId, prompt |-> prompt, items |-> menu_items,
     allow_user_input |-> allow_user_input]

\* the menus without a NestedMenu
LeafMenus ==
    { Menu("menu", <<BackItem(NoId), Item(JStr("a"), NoId), ExitItem(JStr("Exit"), NoId)>>, FALSE),
      Menu("count", <<CounterItem(JStr("n"), NoId), Delimiter, ExitItem(JNull, NoId)>>, TRUE),
      Menu("ids", <<CounterItem(JStr("x"), <<"x">>), Item(JStr("y"), <<"x">>),
                    BackItem(<<"x", "b">>)>>, FALSE) }

\* the menus that wrap menu m in a NestedMenu
Wrap1(m) == Menu("menu", <<NestedMenu(JStr("sub"), m, NoId), CounterItem(JStr("n"), NoId)>>, TRUE)
Wrap2(m) ==
    Menu("main", <<Item(JStr("a"), NoId), NestedMenu(JStr("Settings"), m, <<"settings">>),
                   ExitItem(JStr("Exit"), <<"settings", "1">>), BackItem(NoId)>>, FALSE)

RECURSIVE Menus(_)
Menus(d) ==
    IF d = 0 THEN LeafMenus
    ELSE LET inner == Menus(d - 1)
         IN  inner \cup {Wrap1(m) : m \in inner} \cup {Wrap2(m) : m \in inner}

\* the root menus the application may define, the ids the driver may give
\* the root, and the script mode versions
Templates == Menus(MaxDepth)
RootIds == {<<>>, <<"root">>}
Versions == {<<1, 6>>, <<1, 7, 4>>}

(***************************************************************************)
(* The state.                                                              *)
(***************************************************************************)
VARIABLES
    app,      \* the application: its root Menu template, the root id, the rofi version
    pc,       \* the stage of the invocation
    env,      \* ROFI_RETV, ROFI_DATA, ROFI_INFO and sys.argv[1] as the launcher set them
    ms,       \* the MetaStore of this invocation
    menus,    \* the bound menus, by reference
    items,    \* the bound items, by reference
    op,       \* the Operation the routing returned
    trace,    \* history of the calls made during this invocation
    stdout,   \* what the previous invocation wrote, as the launcher shows it
    script_input, \* what decode_script_input of the 1.7.4 parser returned
    sched     \* the order in which the event loop completes gathered tasks

vars == <<app, pc, env, ms, menus, items, op, trace, stdout, script_input, sched>>

None == [t |-> "none"]

(***************************************************************************)
(* asyncio.gather: the tasks complete in an order the event loop decides,  *)
(* and their results are returned in the order the awaitables were given.  *)
(***************************************************************************)
\* the orders of completion considered: first in first out (what the event
\* loop does when no task waits for I/O) and last in first out
Scheds == {"fifo", "lifo"}

\* the index of the k-th of n tasks to complete
CompletionOrder(n) == [k \in 1..n |-> IF sched = "lifo" THEN n + 1 - k ELSE k]

\* gather, had it returned the results as the tasks completed
gather_as_completed(results, order) == [k \in 1..Len(order) |-> results[order[k]]]

\* asyncio.gather: results[i] is what the i-th awaitable returned
gather(results, order) == [i \in 1..Len(order) |-> results[i]]

(***************************************************************************)
(* build: the bound tree, as a heap of bound menus and bound items.        *)
(***************************************************************************)
EmptyHeap == [menus |-> <<>>, items |-> <<>>]
HeapUnion(h, g) == [menus |-> h.menus @@ g.menus, items |-> h.items @@ g.items]

\* Item.clone and Menu.clone, had they returned self and not a new object
clone_self == "self"
\* Item.clone and Menu.clone: obj is a new object ("copy") that is given
\* the attributes of self, so the assignments of build to obj leave self
clone == "copy"

\* Item.build: the bound copy of the template
Item_build(self, parent_menu, item_id) ==
    [self EXCEPT !.id = IF self.id # NoId THEN self.id ELSE item_id,
                 !.parent_menu = parent_menu]

RECURSIVE Menu_build(_, _, _)
RECURSIVE build_menu_items(_, _, _, _)

\* NestedMenu.build: the bound item and its bound sub-menu
NestedMenu_build(self, parent_menu, item_id, ref) ==
    LET obj == Item_build(self, parent_menu, item_id)
    IN  HeapUnion([menus |-> <<>>, items |-> (ref :> [obj EXCEPT !.sub_menu = ref])],
                  Menu_build(self.sub_menu, obj.id, ref))

\* item.build of whichever class the item is
build(self, parent_menu, item_id, ref) ==
    IF self.kind = "NestedMenu"
    THEN NestedMenu_build(self, parent_menu, item_id, ref)
    ELSE [menus |-> <<>>, items |-> (ref :> Item_build(self, parent_menu, item_id))]

\* build_menu_items, had it numbered every item with the same index
build_menu_items_same_index(menu_items, menu_id, ref, n) ==
    IF n > Len(menu_items) THEN EmptyHeap
    ELSE With(CompletionOrder(Len(menu_items))[n], LAMBDA i :
         HeapUnion(
            build(menu_items[i], ref,
                  IF menu_items[i].id # NoId THEN menu_items[i].id
                  ELSE menu_id \o <<ToString(0)>>,
                  ref \o <<i>>),
            build_menu_items(menu_items, menu_id, ref, n + 1)))

\* Menu.build_menu_items: the build tasks of the items of the menu being
\* built at ref, from the n-th to complete on; the task of the item at
\* position i was given index i - 1 when the tasks were made
build_menu_items(menu_items, menu_id, ref, n) ==
    IF n > Len(menu_items) THEN EmptyHeap
    ELSE With(CompletionOrder(Len(menu_items))[n], LAMBDA i :
         HeapUnion(
            build(menu_items[i], ref,
                  IF menu_items[i].id # NoId THEN menu_items[i].id
                  ELSE menu_id \o <<ToString(i - 1)>>,
                  ref \o <<i>>),
            build_menu_items(menu_items, menu_id, ref, n + 1)))

\* Menu.build
Menu_build(self, menu_id, ref) ==
    HeapUnion(
        [menus |-> (ref :> [self EXCEPT !.id = menu_id,
                                        !.items = gather([i \in 1..Len(self.items) |-> ref \o <<i>>],
                                                         CompletionOrder(Len(self.items)))]),
         items |-> <<>>],
        build_menu_items(self.items, menu_id, ref, 1))

\* the template self as Item.build leaves it: build assigns id and
\* parent_menu to obj
Item_after_build(self, parent_menu, item_id) ==
    IF clone = "self" THEN Item_build(self, parent_menu, item_id) ELSE self

RECURSIVE Menu_after_build(_, _, _)

\* the template self as NestedMenu.build leaves it; build assigns the built
\* sub-menu to obj, and self keeps its own sub_menu, which was built
NestedMenu_after_build(self, parent_menu, item_id, ref) ==
    [Item_after_build(self, parent_menu, item_id) EXCEPT
        !.sub_menu = Menu_after_build(self.sub_menu,
                                      Item_build(self, parent_menu, item_id).id, ref)]

\* the template self as item.build leaves it, whichever class the item is
after_build(self, parent_menu, item_id, ref) ==
    IF self.kind = "NestedMenu"
    THEN NestedMenu_after_build(self, parent_menu, item_id, ref)
    ELSE Item_after_build(self, parent_menu, item_id)

\* the template self as Menu.build leaves it: build assigns id and items to
\* obj, and the items of self are the templates the build tasks were given
Menu_after_build(self, menu_id, ref) ==
    With([i \in 1..Len(self.items) |->
             after_build(self.items[i], ref,
                         IF self.items[i].id # NoId THEN self.items[i].id
                         ELSE menu_id \o <<ToString(i - 1)>>,
                         ref \o <<i>>)],
         LAMBDA left :
            IF clone = "self" THEN [self EXCEPT !.id = menu_id, !.items = left]
            ELSE [self EXCEPT !.items = left])

(***************************************************************************)
(* Item: load, store, render, select.  A world w is the mutable part of    *)
(* an invocation: the bound items, the MetaStore and the history.          *)
(***************************************************************************)
Log(w, e) == [w EXCEPT !.trace = Append(@, e)]

\* Item.load
Item_load(w, ref) ==
    Log([w EXCEPT !.items[ref].state = get_state(w.ms, w.items[ref].id)],
        [ev |-> "load", at |-> ref, state |-> get_state(w.ms, w.items[ref].id)])

\* Item.store, had it rebound the id to the key it stores under
Item_store_rekey(w, ref) ==
    Log([w EXCEPT !.ms = set_state(w.ms, w.items[ref].id, w.items[ref].state),
                  !.items[ref].id = <<StrJoin(".", @)>>],
        [ev |-> "store", at |-> ref, state |-> w.items[ref].state])

\* Item.store
Item_store(w, ref) ==
    Log([w EXCEPT !.ms = set_state(w.ms, w.items[ref].id, w.items[ref].state)],
        [ev |-> "store", at |-> ref, state |-> w.items[ref].state])

\* Item.pre_render
Item_pre_render(w, ref) == IF ~w.items[ref].loaded THEN Item_load(w, ref) ELSE w

\* Item.render
Item_render(w, ref) ==
    IF w.items[ref].text # JNull THEN w.items[ref].text.v ELSE "[UNDEFINED]"

\* Item.handle_render (post_render does nothing)
Item_handle_render(w, ref) ==
    With(Item_pre_render(w, ref), LAMBDA w1 : [w |-> w1, text |-> Item_render(w1, ref)])

\* Item.pre_select
Item_pre_select(w, ref) == IF ~w.items[ref].loaded THEN Item_load(w, ref) ELSE w

\* Item.post_select
Item_post_select(w, ref) == Item_store(w, ref)

\* the on_select hook of a stateful subclass: count the selections
NextCount(state) == IF state.t = "int" THEN JInt((state.v % NumStates) + 1) ELSE JInt(1)

(***************************************************************************)
(* Menu: render.                                                           *)
(***************************************************************************)
\* the handle_render tasks of the items, from the n-th to complete on: the
\* world they leave and the text each returned, by the position of its item
RECURSIVE gather_handle_render(_, _, _)
gather_handle_render(w, refs, n) ==
    IF n > Len(refs) THEN [w |-> w, texts |-> <<>>]
    ELSE With(CompletionOrder(Len(refs))[n], LAMBDA i :
         With(Item_handle_render(w, refs[i]), LAMBDA r :
         With(gather_handle_render(r.w, refs, n + 1), LAMBDA rest :
              [w |-> rest.w, texts |-> (i :> r.text) @@ rest.texts])))

\* the active / urgent header lines of Menu.render
RECURSIVE flag_lines(_, _, _)
flag_lines(w, refs, n) ==
    IF n > Len(refs) THEN <<>>
    ELSE (IF "active" \in w.items[refs[n]].flags THEN <<menu_active(n - 1)>> ELSE <<>>)
         \o (IF "urgent" \in w.items[refs[n]].flags THEN <<menu_urgent(n - 1)>> ELSE <<>>)
         \o flag_lines(w, refs, n + 1)

\* menu_rows, had a row carried its text and id alone
menu_rows_bare(w, refs, texts, common_meta) ==
    [i \in 1..Len(refs) |->
        menu_item(texts[i], w.items[refs[i]].icon, w.items[refs[i]].searchable_text,
                  w.items[refs[i]].nonselectable,
                  DictSet(DictSet(EmptyDict, "text", JStr(texts[i])),
                          "id", JList(w.items[refs[i]].id)))]

\* the rows of Menu.render: one menu_item per item, with the common meta
menu_rows(w, refs, texts, common_meta) ==
    [i \in 1..Len(refs) |->
        menu_item(texts[i], w.items[refs[i]].icon, w.items[refs[i]].searchable_text,
                  w.items[refs[i]].nonselectable,
                  DictSet(DictSet(common_meta, "text", JStr(texts[i])),
                          "id", JList(w.items[refs[i]].id)))]

\* Menu.render
Menu_render(w, mref) ==
    With(gather_handle_render(w, menus[mref].items, 1), LAMBDA g :
         [w |-> g.w,
          text |-> render_menu(
                      <<menu_prompt(menus[mref].prompt), menu_enable_markup,
                        menu_no_input(~menus[mref].allow_user_input)>>
                      \o flag_lines(g.w, menus[mref].items, 1),
                      menu_rows(g.w, menus[mref].items,
                                gather(g.texts, CompletionOrder(Len(menus[mref].items))),
                                as_dict(g.w.ms)))])

\* getattr(meta, "session", None): MetaStore has no such attribute
session(store) == JNull

\* Menu_post_render, had it written the stamp into the metadata mapping
Menu_post_render_stamp(w, mref) ==
    [w EXCEPT !.ms.meta = DictSet(@, "last_active_menu", JList(menus[mref].id))]

\* Menu.post_render
Menu_post_render(w, mref) ==
    IF session(w.ms) # JNull
    THEN [w EXCEPT !.ms = [session |-> DictSet(session(w.ms), "last_active_menu",
                                               JList(menus[mref].id))] @@ w.ms]
    ELSE w

\* Menu.handle_render (pre_render does nothing); by is the caller, for the
\* history, which also keeps the MetaStore as it was before and is after
Menu_handle_render(w, mref, by) ==
    With(Menu_render(w, mref), LAMBDA r :
    With(Menu_post_render(r.w, mref), LAMBDA p :
         [w |-> Log(p, [ev |-> "render", at |-> mref, by |-> by, text |-> r.text,
                        before |-> w.ms, after |-> p.ms]),
          text |-> r.text]))

(***************************************************************************)
(* Selection: Item.handle_select, NestedMenu.handle_select and             *)
(* Menu.propagate_select.  Each returns the world it leaves and the        *)
(* Operation.                                                              *)
(***************************************************************************)
Caller(fn, ref) == [fn |-> fn, at |-> ref]

\* the world and the Operation a handler returns
Result(w, o) == [w |-> w, op |-> o]
\* the same, with the return written to the history
Return(w, ev, ref, o) == [w |-> Log(w, [ev |-> ev, at |-> ref, op |-> o]), op |-> o]

\* Item_on_select, had ExitItem not overridden on_select
Item_on_select_no_exit(w, ref) ==
    IF w.items[ref].kind = "BackItem"
    THEN Result(Log(w, [ev |-> "on_select", at |-> ref, state |-> w.items[ref].state]),
                Operation(OP_BACK_TO_PARENT_MENU, NoData))
    ELSE IF w.items[ref].kind = "CounterItem"
    THEN Result(Log([w EXCEPT !.items[ref].state = NextCount(@)],
                    [ev |-> "on_select", at |-> ref,
                     state |-> NextCount(w.items[ref].state)]),
                Operation(OP_REFRESH_MENU, NoData))
    ELSE Result(Log(w, [ev |-> "on_select", at |-> ref, state |-> w.items[ref].state]),
                Operation(OP_REFRESH_MENU, NoData))

\* on_select of the kinds of leaf item
Item_on_select(w, ref) ==
    IF w.items[ref].kind = "BackItem"
    THEN Result(Log(w, [ev |-> "on_select", at |-> ref, state |-> w.items[ref].state]),
                Operation(OP_BACK_TO_PARENT_MENU, NoData))
    ELSE IF w.items[ref].kind = "ExitItem"
    THEN Result(Log(w, [ev |-> "on_select", at |-> ref, state |-> w.items[ref].state]),
                Operation(OP_EXIT, NoData))
    ELSE IF w.items[ref].kind = "CounterItem"
    THEN Result(Log([w EXCEPT !.items[ref].state = NextCount(@)],
                    [ev |-> "on_select", at |-> ref,
                     state |-> NextCount(w.items[ref].state)]),
                Operation(OP_REFRESH_MENU, NoData))
    ELSE Result(Log(w, [ev |-> "on_select", at |-> ref, state |-> w.items[ref].state]),
                Operation(OP_REFRESH_MENU, NoData))

\* Item.handle_select, had it stored before on_select
Item_handle_select_store_first(w, ref) ==
    With(Item_on_select(
            Item_post_select(
                Item_pre_select(Log(w, [ev |-> "handle_select", at |-> ref]), ref), ref),
            ref),
         LAMBDA r : Return(r.w, "handled", ref, r.op))

\* Item.handle_select: pre_select, on_select, post_select
Item_handle_select(w, ref) ==
    With(Item_on_select(Item_pre_select(Log(w, [ev |-> "handle_select", at |-> ref]), ref),
                        ref),
         LAMBDA r : Return(Item_post_select(r.w, ref), "handled", ref, r.op))

\* NestedMenu.on_select: open the sub-menu
NestedMenu_on_select(w, ref) ==
    With(Menu_handle_render(
            Log(w, [ev |-> "on_select", at |-> ref, state |-> w.items[ref].state]),
            w.items[ref].sub_menu, Caller("NestedMenu.on_select", ref)),
         LAMBDA r : Result(r.w, Operation(OP_OUTPUT, r.text)))

\* item.id == item_id[: len(item.id)], item_id a decoded JSON value
IdIsPrefix(id, item_id) ==
    item_id.t = "list" /\ id = Slice(item_id.v, Len(id))

\* meta.selected_id == self.id
IdEquals(id, item_id) == item_id.t = "list" /\ id = item_id.v

\* the least member of a non-empty set of positions
First(hits) == CHOOSE i \in hits : \A j \in hits : i <= j

\* FirstMatch, had the loop kept the last item that matches
FirstMatch_last(w, mref, item_id) ==
    With({i \in 1..Len(menus[mref].items) :
             IdIsPrefix(w.items[menus[mref].items[i]].id, item_id)},
         LAMBDA hits : IF hits = {} THEN 0 ELSE CHOOSE i \in hits : \A j \in hits : i >= j)

\* the first item of the menu, in item order, that the for loop of
\* Menu.propagate_select matches; 0 when the loop ends without a match
FirstMatch(w, mref, item_id) ==
    With({i \in 1..Len(menus[mref].items) :
             IdIsPrefix(w.items[menus[mref].items[i]].id, item_id)},
         LAMBDA hits : IF hits = {} THEN 0 ELSE First(hits))

RECURSIVE Menu_propagate_select(_, _)
RECURSIVE NestedMenu_handle_select(_, _)

\* item.handle_select of whichever class the item is
handle_select(w, ref) ==
    IF w.items[ref].kind = "NestedMenu"
    THEN NestedMenu_handle_select(w, ref)
    ELSE Item_handle_select(w, ref)

\* the OUTPUT Operation of a render of menu mref, returned by the handler at ref
RenderedBy(w, mref, fn, ev, ref) ==
    With(Menu_handle_render(w, mref, Caller(fn, ref)),
         LAMBDA t : Return(t.w, ev, ref, Operation(OP_OUTPUT, t.text)))

\* propagate_select_matched, had it redrawn the menu on BACK_TO_PARENT_MENU too
propagate_select_matched_back(r, mref) ==
    IF r.op.code \in {OP_REFRESH_MENU, OP_BACK_TO_PARENT_MENU}
    THEN RenderedBy(r.w, mref, "Menu.propagate_select", "return", mref)
    ELSE Return(r.w, "return", mref, r.op)

\* Menu.propagate_select, once the matched item's handle_select has returned r
propagate_select_matched(r, mref) ==
    IF r.op.code = OP_REFRESH_MENU
    THEN RenderedBy(r.w, mref, "Menu.propagate_select", "return", mref)
    ELSE Return(r.w, "return", mref, r.op)

\* Menu_propagate_select, had a selection that matches no item ended the menu
Menu_propagate_select_no_fallback(w, mref) ==
    With(FirstMatch(w, mref, selected_id(w.ms)), LAMBDA n :
         IF n # 0
         THEN propagate_select_matched(
                  handle_select(Log(w, [ev |-> "propagate_select", at |-> mref]),
                                menus[mref].items[n]),
                  mref)
         ELSE Return(Log(w, [ev |-> "propagate_select", at |-> mref]), "return", mref,
                     Operation(OP_EXIT, NoData)))

\* Menu.propagate_select
Menu_propagate_select(w, mref) ==
    With(FirstMatch(w, mref, selected_id(w.ms)), LAMBDA n :
         IF n # 0
         THEN propagate_select_matched(
                  handle_select(Log(w, [ev |-> "propagate_select", at |-> mref]),
                                menus[mref].items[n]),
                  mref)
         ELSE RenderedBy(Log(w, [ev |-> "propagate_select", at |-> mref]), mref,
                         "Menu.propagate_select", "return", mref))

\* handle_select_translate, had BACK_TO_PARENT_MENU redrawn the sub-menu
handle_select_translate_sub(r, ref) ==
    IF r.op.code \in {OP_REFRESH_MENU, OP_BACK_TO_PARENT_MENU}
    THEN RenderedBy(r.w, r.w.items[ref].sub_menu, "NestedMenu.handle_select",
                    "handled", ref)
    ELSE Return(r.w, "handled", ref, r.op)

\* handle_select_translate, had BACK_TO_PARENT_MENU been passed up as it is
handle_select_translate_pass(r, ref) ==
    IF r.op.code = OP_REFRESH_MENU
    THEN RenderedBy(r.w, r.w.items[ref].sub_menu, "NestedMenu.handle_select",
                    "handled", ref)
    ELSE Return(r.w, "handled", ref, r.op)

\* NestedMenu.handle_select, once the Operation op of its first half is known
handle_select_translate(r, ref) ==
    IF r.op.code = OP_REFRESH_MENU
    THEN RenderedBy(r.w, r.w.items[ref].sub_menu, "NestedMenu.handle_select",
                    "handled", ref)
    ELSE IF r.op.code = OP_BACK_TO_PARENT_MENU
    THEN RenderedBy(r.w, r.w.items[ref].parent_menu, "NestedMenu.handle_select",
                    "handled", ref)
    ELSE Return(r.w, "handled", ref, r.op)

\* pre_select, on_select, post_select of a NestedMenu that is the selected row
handle_select_self(w, ref) ==
    With(NestedMenu_on_select(Item_pre_select(w, ref), ref),
         LAMBDA s : Result(Item_post_select(s.w, ref), s.op))

\* NestedMenu.handle_select, had it compared the ids by prefix
NestedMenu_handle_select_prefix(w, ref) ==
    handle_select_translate(
        IF IdIsPrefix(w.items[ref].id, selected_id(w.ms))
        THEN handle_select_self(Log(w, [ev |-> "handle_select", at |-> ref]), ref)
        ELSE Menu_propagate_select(Log(w, [ev |-> "handle_select", at |-> ref]),
                                   w.items[ref].sub_menu),
        ref)

\* NestedMenu.handle_select
NestedMenu_handle_select(w, ref) ==
    handle_select_translate(
        IF IdEquals(w.items[ref].id, selected_id(w.ms))
        THEN handle_select_self(Log(w, [ev |-> "handle_select", at |-> ref]), ref)
        ELSE Menu_propagate_select(Log(w, [ev |-> "handle_select", at |-> ref]),
                                   w.items[ref].sub_menu),
        ref)

(***************************************************************************)
(* Free text: Menu.propagate_user_input and                                *)
(* NestedMenu.propagate_user_input.                                        *)
(***************************************************************************)
\* Menu.on_user_input
Menu_on_user_input(w, mref) ==
    Result(Log(w, [ev |-> "on_user_input", at |-> mref]),
           Operation(OP_REFRESH_MENU, NoData))

\* the first NestedMenu of the menu whose id is a prefix of menu_id; 0 if none
FirstNested(w, mref, menu_id) ==
    With({i \in 1..Len(menus[mref].items) :
             /\ w.items[menus[mref].items[i]].kind = "NestedMenu"
             /\ IdIsPrefix(w.items[menus[mref].items[i]].id, menu_id)},
         LAMBDA hits : IF hits = {} THEN 0 ELSE First(hits))

\* session.get("last_active_menu") if session else None
last_active_menu(store) ==
    IF session(store) # JNull THEN DictGet(session(store), "last_active_menu") ELSE JNull

RECURSIVE Menu_propagate_user_input(_, _)

\* the translation of NestedMenu.propagate_user_input
user_input_translate(r, ref) ==
    IF r.op.code = OP_REFRESH_MENU
    THEN RenderedBy(r.w, r.w.items[ref].sub_menu, "NestedMenu.propagate_user_input",
                    "input_handled", ref)
    ELSE IF r.op.code = OP_BACK_TO_PARENT_MENU
    THEN RenderedBy(r.w, r.w.items[ref].parent_menu, "NestedMenu.propagate_user_input",
                    "input_handled", ref)
    ELSE r

\* NestedMenu.propagate_user_input
NestedMenu_propagate_user_input(w, ref) ==
    user_input_translate(Menu_propagate_user_input(w, w.items[ref].sub_menu), ref)

\* the end of Menu.propagate_user_input, r being what the target returned
user_input_finish(r, mref) ==
    IF r.op.code = OP_REFRESH_MENU
    THEN RenderedBy(r.w, mref, "Menu.propagate_user_input", "input_return", mref)
    ELSE r

\* Menu.propagate_user_input
Menu_propagate_user_input(w, mref) ==
    user_input_finish(
        IF last_active_menu(w.ms) = JNull \/ IdEquals(menus[mref].id, last_active_menu(w.ms))
        THEN Menu_on_user_input(w, mref)
        ELSE IF FirstNested(w, mref, last_active_menu(w.ms)) # 0
        THEN NestedMenu_propagate_user_input(
                 w, menus[mref].items[FirstNested(w, mref, last_active_menu(w.ms))])
        ELSE Result(w, Operation(OP_REFRESH_MENU, NoData)),
        mref)

(***************************************************************************)
(* Reading the bound tree, the templates and the history.                  *)
(***************************************************************************)
\* the template item the bound item at ref was built from
RECURSIVE TemplateItem(_, _)
TemplateItem(menu, ref) ==
    IF Len(ref) = 1 THEN menu.items[ref[1]]
    ELSE TemplateItem(menu.items[ref[1]].sub_menu, Tail(ref))

\* the template menu the bound menu at mref was built from
RECURSIVE TemplateMenu(_, _)
TemplateMenu(menu, mref) ==
    IF Len(mref) = 0 THEN menu
    ELSE TemplateMenu(menu.items[mref[1]].sub_menu, Tail(mref))

Front(q) == SubSeq(q, 1, Len(q) - 1)
ItemRefs(mref) == {menus[mref].items[i] : i \in 1..Len(menus[mref].items)}
Events(ev) == {k \in DOMAIN trace : trace[k].ev = ev}
EventsAt(ev, ref) == {k \in DOMAIN trace : trace[k].ev = ev /\ trace[k].at = ref}
\* id is the first Len(id) segments of sel
PrefixOf(id, sel) == Len(id) <= Len(sel) /\ \A j \in 1..Len(id) : id[j] = sel[j]
\* the items of a menu whose id is a prefix of sel, by position
Matching(mref, sel) ==
    {i \in 1..Len(menus[mref].items) : PrefixOf(items[menus[mref].items[i]].id, sel)}
\* the selected id of this invocation, <<>> without one
Sel == IF ms # None /\ selected_id(ms).t = "list" THEN selected_id(ms).v ELSE <<>>
Routed == pc = "routed"

(***************************************************************************)
(* One invocation, stage by stage.                                         *)
(***************************************************************************)
World == [items |-> items, ms |-> ms, trace |-> trace]

\* the ids a launcher may echo for a row the menu no longer holds as shown
StaleIds(row_id) == {<<"zz">>, row_id \o <<"zz">>}

\* the info payload of a row, with the row id replaced
WithId(info, id) == B64Encode(JsonDumps(DictSet(JsonLoads(B64Decode(info)), "id", JList(id))))

\* the routing has returned r: its world and its Operation become the state
Returned(r) ==
    /\ items' = r.w.items
    /\ ms' = r.w.ms
    /\ trace' = r.w.trace
    /\ op' = r.op

Init ==
    /\ app \in [menu : Templates, menu_id : RootIds, rofi_version : Versions]
    /\ pc = "idle"
    /\ env = None
    /\ ms = None
    /\ menus = <<>>
    /\ items = <<>>
    /\ op = None
    /\ trace = <<>>
    /\ stdout = None
    /\ script_input = None
    /\ sched = None

\* the launcher starts the script: the initial call
LaunchInitial ==
    /\ pc = "idle"
    /\ env' = [ROFI_RETV |-> ROFI_RETV_INITIAL_SCRIPT_CALL, ROFI_DATA |-> Unset,
               ROFI_INFO |-> Unset, arg |-> JNull]
    /\ pc' = "launched"
    /\ UNCHANGED <<app, ms, menus, items, op, trace, stdout, script_input, sched>>

\* the user picks a selectable row of what is shown
LaunchSelected ==
    /\ pc = "idle"
    /\ stdout # None
    /\ \E i \in 1..Len(stdout.rows) :
          /\ stdout.rows[i].nonselectable = "false"
          /\ env' = [ROFI_RETV |-> ROFI_RETV_SELECTED_ENTRY, ROFI_DATA |-> Unset,
                     ROFI_INFO |-> stdout.rows[i].info, arg |-> JStr(stdout.rows[i].text)]
    /\ pc' = "launched"
    /\ UNCHANGED <<app, ms, menus, items, op, trace, stdout, script_input, sched>>

\* the user picks a row whose id the menu does not hold (any more)
LaunchStale ==
    /\ pc = "idle"
    /\ stdout # None
    /\ \E i \in 1..Len(stdout.rows) :
          \E id \in StaleIds(JsonLoads(B64Decode(stdout.rows[i].info))["id"].v) :
              env' = [ROFI_RETV |-> ROFI_RETV_SELECTED_ENTRY, ROFI_DATA |-> Unset,
                      ROFI_INFO |-> WithId(stdout.rows[i].info, id),
                      arg |-> JStr(stdout.rows[i].text)]
    /\ pc' = "launched"
    /\ UNCHANGED <<app, ms, menus, items, op, trace, stdout, script_input, sched>>

\* the user types free text, where the menu shown allows it
LaunchCustom ==
    /\ pc = "idle"
    /\ stdout # None
    /\ stdout.header[3] = menu_no_input(FALSE)
    /\ env' = [ROFI_RETV |-> ROFI_RETV_CUSTOM_ENTRY, ROFI_DATA |-> Unset,
               ROFI_INFO |-> Unset, arg |-> JStr("query")]
    /\ pc' = "launched"
    /\ UNCHANGED <<app, ms, menus, items, op, trace, stdout, script_input, sched>>

\* MetaStore(sys.argv[1], rofi_version)
Construct ==
    /\ pc = "launched"
    /\ ms' = MetaStore(env.arg, app.rofi_version, env)
    /\ pc' = IF IsError(ms'.meta) THEN "failed" ELSE "constructed"
    /\ sched' \in Scheds
    /\ UNCHANGED <<app, env, menus, items, op, trace, stdout, script_input>>

\* menu.build(menu_id, meta) of the root
Build ==
    /\ pc = "constructed"
    /\ LET heap == Menu_build(app.menu, app.menu_id, RootRef)
       IN  menus' = heap.menus /\ items' = heap.items
    /\ app' = [app EXCEPT !.menu = Menu_after_build(app.menu, app.menu_id, RootRef)]
    /\ pc' = "built"
    /\ UNCHANGED <<env, ms, op, trace, stdout, script_input, sched>>

\* a row was selected: root.propagate_select(meta)
PropagateSelect ==
    /\ pc = "built"
    /\ selected_id(ms) # JNull
    /\ Returned(Menu_propagate_select(World, RootRef))
    /\ pc' = "routed"
    /\ UNCHANGED <<app, env, menus, stdout, script_input, sched>>

\* free text was entered: root.propagate_user_input(meta)
PropagateUserInput ==
    /\ pc = "built"
    /\ selected_id(ms) = JNull
    /\ user_input(ms) # JNull
    /\ Returned(Menu_propagate_user_input(World, RootRef))
    /\ pc' = "routed"
    /\ UNCHANGED <<app, env, menus, stdout, script_input, sched>>

\* neither: the freshly built root is rendered
Render ==
    /\ pc = "built"
    /\ selected_id(ms) = JNull
    /\ user_input(ms) = JNull
    /\ Returned(RenderedBy(World, RootRef, "main", "main_return", RootRef))
    /\ pc' = "routed"
    /\ UNCHANGED <<app, env, menus, stdout, script_input, sched>>

\* the text of an OUTPUT Operation is written and the process ends
Finish ==
    /\ pc = "routed"
    /\ stdout' = IF op.code = OP_OUTPUT THEN op.data ELSE None
    /\ pc' = "idle"
    /\ env' = None
    /\ ms' = None
    /\ menus' = <<>>
    /\ items' = <<>>
    /\ op' = None
    /\ trace' = <<>>
    /\ sched' = None
    /\ UNCHANGED <<app, script_input>>

Next ==
    \/ LaunchInitial
    \/ LaunchSelected
    \/ LaunchStale
    \/ LaunchCustom
    \/ Construct
    \/ Build
    \/ PropagateSelect
    \/ PropagateUserInput
    \/ Render
    \/ Finish

Spec == Init /\ [][Next]_vars

(***************************************************************************)
(* The codecs alone: a row is encoded and echoed back, or the launcher     *)
(* sets the environment at will, and the script decodes it, by the         *)
(* MetaStore of its rofi version or by decode_script_input.                *)
(***************************************************************************)
\* the ambient metadata a row may be encoded with, its text and its id
CommonMetas ==
    { EmptyDict,
      ("0" :> JInt(1)),
      ("settings.0" :> JInt(2)) @@ ("1" :> JStr("on")),
      ("x" :> JList(<<"p", "q">>)) @@ ("y" :> JNull) @@ ("text" :> JStr("old")) }
RowTexts == {"a", ".."}
RowItemIds == {<<"0">>, <<"settings", "0">>}

\* the values the launcher may leave in ROFI_RETV, ROFI_DATA and ROFI_INFO
Retvs == {"0", "1", "2", "10", ToString(MaxRetv), "x"}
EnvValues ==
    { Unset, EmptyStr, NotBase64, B64Encode(NotJson),
      B64Encode(JsonDumps(("0" :> JInt(1)))),
      B64Encode(JsonDumps(("id" :> JList(<<"0">>)) @@ ("text" :> JStr("a")))) }

CodecInit ==
    /\ app \in [menu : {Menu("menu", <<>>, FALSE)}, menu_id : {<<>>}, rofi_version : Versions]
    /\ pc = "idle"
    /\ env = None
    /\ ms = None
    /\ menus = <<>>
    /\ items = <<>>
    /\ op = None
    /\ trace = <<>>
    /\ stdout = None
    /\ script_input = None
    /\ sched = None

\* menu_item encodes one row; what it was given is kept in the history
EncodeRow ==
    /\ pc = "idle"
    /\ stdout = None
    /\ \E common \in CommonMetas : \E text \in RowTexts : \E id \in RowItemIds :
          LET meta_data == DictSet(DictSet(common, "text", JStr(text)), "id", JList(id))
          IN  /\ stdout' = render_menu(<<>>, <<menu_item(text, JNull, JNull, FALSE, meta_data)>>)
              /\ trace' = <<[ev |-> "menu_item", meta_data |-> meta_data]>>
    /\ UNCHANGED <<app, pc, env, ms, menus, items, op, script_input, sched>>

\* the launcher starts the script with an environment of its own making
LaunchEnv ==
    /\ pc = "idle"
    /\ stdout = None
    /\ env' \in [ROFI_RETV : Retvs, ROFI_DATA : EnvValues, ROFI_INFO : EnvValues,
                 arg : {JStr("query")}]
    /\ pc' = "launched"
    /\ UNCHANGED <<app, ms, menus, items, op, trace, stdout, script_input, sched>>

\* decode_script_input()
DecodeScriptInput ==
    /\ pc = "launched"
    /\ script_input' = decode_script_input(env)
    /\ pc' = "decoded"
    /\ UNCHANGED <<app, env, ms, menus, items, op, trace, stdout, sched>>

CodecNext ==
    \/ EncodeRow
    \/ LaunchSelected
    \/ LaunchEnv
    \/ Construct
    \/ DecodeScriptInput

CodecSpec == CodecInit /\ [][CodecNext]_vars

(***************************************************************************)
(* Properties.                                                             *)
(***************************************************************************)
\* the items of menu mref whose handle_select was called
Handled(mref) == {r \in ItemRefs(mref) : EventsAt("handle_select", r) # {}}
\* the earliest of the matching positions
Earliest(hits) == {i \in hits : \A j \in hits : i <= j}

\* C1: Menu.propagate_select calls handle_select of exactly one item, the
\* first item in item order whose id is a prefix of selected_id, and of no
\* other item of that menu, also when a later item's id is a prefix too.
C1_FirstMatchOnly ==
    \A k \in Events("propagate_select") :
        /\ \A r \in ItemRefs(trace[k].at) : Cardinality(EventsAt("handle_select", r)) <= 1
        /\ Handled(trace[k].at) =
              {menus[trace[k].at].items[i] : i \in Earliest(Matching(trace[k].at, Sel))}

\* a menu two of whose items match the selected id has delegated to one
C1_Witness ==
    \E k \in Events("propagate_select") :
        /\ Cardinality(Matching(trace[k].at, Sel)) >= 2
        /\ Cardinality(Handled(trace[k].at)) = 1

\* the ids a selection may carry: the ids of the bound items, and stale ones
CandidateIds ==
    {items[r].id : r \in DOMAIN items} \cup {items[r].id \o <<"zz">> : r \in DOMAIN items}
        \cup {<<"zz">>}
\* no item of the menu was given an explicit id by its template
AllPositional(mref) == \A r \in ItemRefs(mref) : TemplateItem(app.menu, r).id = NoId

\* C2 as stated: in any bound tree, positional or explicit ids alike, at most
\* one item directly contained in a menu has an id that is a prefix of a
\* given selected_id.
C2_AtMostOneMatch ==
    \A mref \in DOMAIN menus : \A sel \in CandidateIds :
        Cardinality(Matching(mref, sel)) <= 1

\* C2 as amended: in a bound menu none of whose items carries an explicit
\* template id, at most one item has an id that is a prefix of a given
\* selected_id.
C2_AtMostOnePositionalMatch ==
    With(CandidateIds, LAMBDA ids :
         \A mref \in DOMAIN menus :
             AllPositional(mref) =>
                 \A sel \in ids : Cardinality(Matching(mref, sel)) <= 1)

\* a built menu of several positional items, one of which matches
C2_Witness ==
    /\ pc = "built"
    /\ \E mref \in DOMAIN menus :
          /\ AllPositional(mref)
          /\ Len(menus[mref].items) >= 3
          /\ \E sel \in CandidateIds : Cardinality(Matching(mref, sel)) = 1

\* the return of handle_select of the item menu mref delegated to
InnerReturns(mref) == {h \in Events("handled") : trace[h].at \in ItemRefs(mref)}
IsRenderBy(e, mref, fn) ==
    e.ev = "render" /\ e.at = mref /\ e.by = Caller(fn, mref)

\* C3: in Menu.propagate_select, a REFRESH_MENU of the matched item becomes
\* OUTPUT carrying the text of this menu's own handle_render; any other
\* Operation is returned as it is, and the menu does not render itself.
C3_RefreshConverted ==
    \A k \in Events("return") : \A h \in InnerReturns(trace[k].at) :
        IF trace[h].op.code = OP_REFRESH_MENU
        THEN /\ trace[k].op.code = OP_OUTPUT
             /\ IsRenderBy(trace[k - 1], trace[k].at, "Menu.propagate_select")
             /\ trace[k].op.data = trace[k - 1].text
             /\ \A i \in 1..Len(menus[trace[k].at].items) :
                   JsonLoads(B64Decode(trace[k].op.data.rows[i].info))["id"] =
                       JList(items[menus[trace[k].at].items[i]].id)
        ELSE /\ trace[k].op = trace[h].op
             /\ h = k - 1

\* one pass in which a sub-menu converts a REFRESH_MENU and the root passes
\* the resulting OUTPUT on
C3_Witness ==
    /\ \E k \in Events("return") : \E h \in InnerReturns(trace[k].at) :
          trace[h].op.code = OP_REFRESH_MENU /\ trace[k].op.code = OP_OUTPUT
    /\ \E k \in Events("return") : \E h \in InnerReturns(trace[k].at) :
          trace[h].op.code = OP_OUTPUT /\ trace[k].op = trace[h].op
    /\ op = trace[Len(trace)].op

\* the calls of handle_select on an item of the given kinds
HandledKind(kinds) == {k \in Events("handle_select") : items[trace[k].at].kind \in kinds}
\* the id each row of a rendered text carries in its info payload
RowIds(text) == [i \in 1..Len(text.rows) |-> JsonLoads(B64Decode(text.rows[i].info))["id"]]
\* the ids of the items of a bound menu, in item order
ItemIds(mref) == [i \in 1..Len(menus[mref].items) |-> JList(items[menus[mref].items[i]].id)]
\* text is a render of menu mref
IsTextOf(text, mref) ==
    /\ text.header[1] = menu_prompt(menus[mref].prompt)
    /\ RowIds(text) = ItemIds(mref)

\* every menu on the way from the root to the item at ref holds positional ids only
PositionalPath(ref) == \A n \in 0..(Len(ref) - 1) : AllPositional(SubSeq(ref, 1, n))
\* the selection of this pass is the row of an item of the given kinds, reached
\* through menus of positional ids: its handle_select has been called
RowReached(kinds) ==
    \A r \in DOMAIN items :
        (Routed /\ items[r].kind \in kinds /\ Sel = items[r].id /\ PositionalPath(r))
            => EventsAt("handle_select", r) # {}

\* C4: selecting a BackItem in the sub-menu of a NestedMenu (its
\* handle_select is called, as it is for its row in a tree of positional
\* ids), at any depth, gives at the root an OUTPUT whose text is the render
\* of the menu that directly contains that NestedMenu, and only that menu is
\* rendered; at depth one that menu is the root.
C4_BackPopsOneLevel ==
    /\ RowReached({"BackItem"})
    /\ \A k \in HandledKind({"BackItem"}) :
          Len(trace[k].at) >= 2 =>
              /\ op.code = OP_OUTPUT
              /\ \E j \in Events("render") :
                    /\ Events("render") = {j}
                    /\ trace[j].at = Front(Front(trace[k].at))
                    /\ op.data = trace[j].text
              /\ IsTextOf(op.data, Front(Front(trace[k].at)))

\* a BackItem two NestedMenus deep was selected and one level was popped
C4_Witness ==
    /\ Routed
    /\ \E k \in HandledKind({"BackItem"}) :
          /\ Len(trace[k].at) = 3
          /\ Sel = items[trace[k].at].id
          /\ op.code = OP_OUTPUT
          /\ IsTextOf(op.data, Front(Front(trace[k].at)))
          /\ ~IsTextOf(op.data, RootRef)

\* C5: NestedMenu.handle_select with selected_id equal to its own id returns
\* OUTPUT carrying the render of its sub-menu and no other menu is rendered;
\* with any other selected_id it calls sub_menu.propagate_select and never
\* its own on_select.
C5_SelfOrDescendant ==
    \A k \in HandledKind({"NestedMenu"}) :
        IF items[trace[k].at].id = Sel
        THEN /\ Cardinality(EventsAt("on_select", trace[k].at)) = 1
             /\ EventsAt("propagate_select", trace[k].at) = {}
             /\ \A j \in Events("render") : trace[j].at = trace[k].at
             /\ \E h \in EventsAt("handled", trace[k].at) : \E j \in Events("render") :
                   /\ trace[h].op = Operation(OP_OUTPUT, trace[j].text)
                   /\ IsTextOf(trace[h].op.data, trace[k].at)
                   /\ op = trace[h].op
        ELSE /\ Cardinality(EventsAt("propagate_select", trace[k].at)) = 1
             /\ EventsAt("on_select", trace[k].at) = {}

\* a NestedMenu inside another is the selected row: the outer one delegates,
\* the inner one opens its sub-menu
C5_Witness ==
    /\ Routed
    /\ \E k \in HandledKind({"NestedMenu"}) :
          /\ items[trace[k].at].id = Sel
          /\ Len(trace[k].at) = 2
          /\ op.code = OP_OUTPUT
          /\ IsTextOf(op.data, trace[k].at)
    /\ \E k \in HandledKind({"NestedMenu"}) :
          /\ items[trace[k].at].id # Sel
          /\ EventsAt("propagate_select", trace[k].at) # {}

\* C6: selecting an ExitItem at any depth (its handle_select is called, as
\* it is for its row in a tree of positional ids) makes the root
\* propagate_select return EXIT without data, and no menu is rendered in
\* that pass.
C6_ExitPassesUp ==
    /\ RowReached({"ExitItem"})
    /\ \A k \in HandledKind({"ExitItem"}) :
          /\ op = Operation(OP_EXIT, NoData)
          /\ Events("render") = {}

\* an ExitItem two NestedMenus deep was selected
C6_Witness ==
    /\ Routed
    /\ \E k \in HandledKind({"ExitItem"}) :
          Len(trace[k].at) = 3 /\ Sel = items[trace[k].at].id /\ PositionalPath(trace[k].at)
    /\ op.code = OP_EXIT

\* every row of a rendered text carries state under key in its info payload
RowsCarry(text, key, state) ==
    \A i \in 1..Len(text.rows) :
        DictGet(JsonLoads(B64Decode(text.rows[i].info)), key) = state

\* C7: Item.handle_select runs load, on_select, store in that order, and a
\* non-null state left by on_select is in the MetaStore under the dotted
\* join of the item's id before any menu is rendered in response.
C7_StoredBeforeRender ==
    \A k \in HandledKind({"Item", "Delimiter", "BackItem", "ExitItem", "CounterItem"}) :
        /\ k + 4 <= Len(trace)
        /\ trace[k + 1].ev = "load" /\ trace[k + 1].at = trace[k].at
        /\ trace[k + 2].ev = "on_select" /\ trace[k + 2].at = trace[k].at
        /\ trace[k + 3].ev = "store" /\ trace[k + 3].at = trace[k].at
        /\ trace[k + 3].state = trace[k + 2].state
        /\ trace[k + 4].ev = "handled" /\ trace[k + 4].at = trace[k].at
        /\ trace[k + 2].state # JNull =>
              /\ DictGet(ms.meta, StrJoin(".", items[trace[k].at].id)) = trace[k + 2].state
              /\ \A j \in Events("render") :
                    /\ j > k + 3
                    /\ RowsCarry(trace[j].text, StrJoin(".", items[trace[k].at].id),
                                 trace[k + 2].state)

\* a stateful item was selected for the second time and its menu redrawn
C7_Witness ==
    /\ Routed
    /\ \E k \in HandledKind({"CounterItem"}) :
          /\ trace[k + 2].state = JInt(2)
          /\ Len(items[trace[k].at].id) >= 2
          /\ Events("render") # {}
          /\ op.code = OP_OUTPUT

\* C8: within one invocation the load of a bound item runs at most once,
\* over any sequence of handle_render and handle_select calls on it.
C8_LoadAtMostOnce ==
    \A r \in DOMAIN items : Cardinality(EventsAt("load", r)) <= 1

\* C9: in every state of a MetaStore, after construction and after any
\* set_state, selected_id and user_input are not both non-null.
C9_SelectedOrInput ==
    ms # None => ~(selected_id(ms) # JNull /\ user_input(ms) # JNull)

\* a MetaStore with a selected id and with raw input, after a set_state
C9_Witness ==
    /\ ms # None
    /\ selected_id(ms) # JNull
    /\ ms.raw_script_input # JNull
    /\ Events("store") # {}
    /\ \E r \in DOMAIN items : items[r].state # JNull /\ get_state(ms, items[r].id) # JNull

\* C10: once build has returned, no later operation of the invocation
\* changes the id of a bound item or of a bound menu.
C10_IdsNeverChange ==
    [][pc = "built" =>
          /\ \A r \in DOMAIN items : r \in DOMAIN items' /\ items'[r].id = items[r].id
          /\ \A m \in DOMAIN menus : m \in DOMAIN menus' /\ menus'[m].id = menus[m].id]_vars

\* after a pass that loaded, stored and rendered, every id is as built
C10_Witness ==
    /\ Routed
    /\ Events("load") # {} /\ Events("store") # {} /\ Events("render") # {}
    /\ \A r \in DOMAIN items :
          items[r].id = Menu_build(app.menu, app.menu_id, RootRef).items[r].id
    /\ \E r \in DOMAIN items : Len(r) = 3 /\ TemplateItem(app.menu, r).id = NoId

\* C11: for every protocol version, the info payload menu_item encodes for a
\* row, fed back as ROFI_INFO of an ENTRY_SELECTED invocation, makes
\* parse_meta return a mapping equal to what was encoded: the merged
\* metadata plus text and id.
C11_RoundTrip ==
    (pc \in {"constructed", "failed"} /\ Events("menu_item") # {}) =>
        ms.meta = trace[1].meta_data

\* the action kind the convention gives return-value code k
ExpectedAction(k) ==
    IF k = 0 THEN JStr("INITIAL_CALL")
    ELSE IF k = 1 THEN JStr("ENTRY_SELECTED")
    ELSE IF k = 2 THEN JStr("CUSTOM_ENTRY")
    ELSE JStr("CUSTOM_KEY_" \o ToString(k - 9))

\* C12: decode_script_input maps the return-value code of the environment
\* to the action kind: 0 to INITIAL_CALL, 1 to ENTRY_SELECTED, 2 to
\* CUSTOM_ENTRY, any other integer k to CUSTOM_KEY_(k-9).
C12_ActionMapping ==
    (pc = "decoded" /\ ~IsError(IntOf(env.ROFI_RETV))) =>
        /\ ~IsError(script_input)
        /\ script_input.ACTION = ExpectedAction(IntOf(env.ROFI_RETV).v)

\* a metadata variable that holds malformed base64 or malformed structured data
Malformed(v) == v \in {NotBase64, B64Encode(NotJson)}
\* the metadata variables parse_meta of the version decodes for the action code
ReadsData(mode, e) ==
    /\ Truthy(e.ROFI_DATA)
    /\ mode = "rofi_mode_174" => e.ROFI_RETV # ROFI_RETV_INITIAL_SCRIPT_CALL
ReadsInfo(mode, e) ==
    /\ Truthy(e.ROFI_INFO)
    /\ mode = "rofi_mode_16" => e.ROFI_RETV = ROFI_RETV_SELECTED_ENTRY
Decoded == pc \in {"constructed", "failed"}

FreeText == ms # None /\ ~IsError(ms.meta) /\ selected_id(ms) = JNull /\ user_input(ms) # JNull
\* what the launcher shows is the render of the nested sub-menu at mref
ShowsNested(mref) ==
    /\ stdout # None
    /\ mref # RootRef
    /\ IsTextOf(stdout, mref)
    /\ ~IsTextOf(stdout, RootRef)

\* C14: when the output of the previous invocation was the render of a
\* nested sub-menu M, a free-text invocation calls on_user_input of M and
\* not on_user_input of the root menu.
C14_InputToLastRendered ==
    (Routed /\ FreeText) =>
        \A mref \in DOMAIN menus :
            ShowsNested(mref) =>
                /\ EventsAt("on_user_input", mref) # {}
                /\ EventsAt("on_user_input", RootRef) = {}

\* the last of a non-empty set of positions of the history
Latest(ks) == CHOOSE k \in ks : \A j \in ks : j <= k

\* C15: after Menu.handle_render of a bound menu has completed, the
\* MetaStore records last_active_menu equal to that menu's id, where
\* propagate_user_input reads it.
C15_LastActiveStamped ==
    (Routed /\ Events("render") # {}) =>
        last_active_menu(ms) = JList(menus[trace[Latest(Events("render"))].at].id)

\* the MetaStore as it was constructed for this invocation
Constructed == MetaStore(env.arg, app.rofi_version, env)

\* C16: when no item of a menu has an id that is a prefix of selected_id,
\* Menu.propagate_select calls no item's handle_select, renders the menu
\* itself (its items load and render, nothing else happens) and returns
\* OUTPUT carrying that render; the MetaStore is left as it was constructed
\* and the pass ends in an Operation, not in an error.
C16_NoMatchFallback ==
    \A k \in Events("propagate_select") :
        Matching(trace[k].at, Sel) = {} =>
            /\ Handled(trace[k].at) = {}
            /\ \E j \in EventsAt("return", trace[k].at) :
                  /\ j > k + 1
                  /\ \A i \in (k + 1)..(j - 2) : trace[i].ev = "load"
                  /\ IsRenderBy(trace[j - 1], trace[k].at, "Menu.propagate_select")
                  /\ trace[j].op = Operation(OP_OUTPUT, trace[j - 1].text)
                  /\ IsTextOf(trace[j].op.data, trace[k].at)
            /\ ms = Constructed
            /\ Events("store") = {}
            /\ op.code = OP_OUTPUT

\* a selection that carries stored state reaches a nested sub-menu none of
\* whose items matches it; the sub-menu is what is shown
C16_Witness ==
    /\ Routed
    /\ \E k \in Events("propagate_select") :
          /\ trace[k].at # RootRef
          /\ Matching(trace[k].at, Sel) = {}
          /\ IsTextOf(op.data, trace[k].at)
    /\ \E r \in DOMAIN items : get_state(ms, items[r].id) # JNull

\* the key the state of the item of history entry k is kept under
KeyAt(k) == StrJoin(".", items[trace[k].at].id)
\* the info payload the launcher echoed into this invocation, decoded
Echoed == JsonLoads(B64Decode(env.ROFI_INFO))
\* this invocation was started by selecting a row of what was shown
RowSelected ==
    /\ env # None
    /\ env.ROFI_RETV = ROFI_RETV_SELECTED_ENTRY
    /\ stdout # None
    /\ \E i \in 1..Len(stdout.rows) : env.ROFI_INFO = stdout.rows[i].info

\* C17: a state stored into the MetaStore during the select phase is in the
\* info payload of every row of the OUTPUT text of the same pass; and in an
\* invocation started by selecting any row of a shown text, every load reads
\* the state that row's payload carries under the item's key, up to a store
\* of the same pass under that key.
C17_StateRoundTrip ==
    /\ (Routed /\ op.code = OP_OUTPUT) =>
          \A k \in Events("store") :
              trace[k].state # JNull => RowsCarry(op.data, KeyAt(k), trace[k].state)
    /\ (Routed /\ RowSelected) =>
          \A j \in Events("load") :
              (\A i \in Events("store") : i < j => (KeyAt(i) # KeyAt(j) \/ trace[i].state = JNull))
                  => trace[j].state = DictGet(Echoed, KeyAt(j))

\* a stateful item two levels down stored a state in an earlier pass; another
\* row of that output was selected, and the item's load read the state back
C17_Witness ==
    /\ Routed
    /\ RowSelected
    /\ \E j \in Events("load") :
          /\ items[trace[j].at].kind = "CounterItem"
          /\ Len(trace[j].at) >= 2
          /\ trace[j].state = JInt(NumStates)
          /\ Sel # items[trace[j].at].id
          /\ RowsCarry(stdout, KeyAt(j), JInt(NumStates))

\* C18: rendering never mutates the MetaStore: every Menu.handle_render of
\* a pass, with the handle_render of every item (load, render), leaves the
\* MetaStore as it was before; the MetaStore differs from the one
\* constructed only after a store of a non-null state.
C18_RenderKeepsMeta ==
    /\ \A j \in Events("render") : trace[j].after = trace[j].before
    /\ (Routed /\ ms # Constructed) =>
          \E k \in Events("store") : trace[k].state # JNull

\* a render that follows a store: its items loaded a stored state, and the
\* MetaStore after it is the one the store left
C18_Witness ==
    /\ Routed
    /\ ms # Constructed
    /\ \E j \in Events("render") : \E k \in Events("store") : \E i \in Events("load") :
          /\ k < i /\ i < j
          /\ trace[i].state # JNull
          /\ trace[j].before = ms
          /\ trace[j].after = ms

\* the bound tree of this invocation is there
Bound == pc \in {"built", "routed"}
\* the id build resolves for the template item tp at position i of a menu
ResolvedId(tp, menu_id, i) == IF tp.id # NoId THEN tp.id ELSE menu_id \o <<ToString(i - 1)>>

\* C19: whatever the order in which the gathered build tasks and render
\* tasks complete, the bound items of a menu are in the order of the
\* templates they were built from, and the rows of a render are in the
\* order of the items: row i carries the text rendered for item i and, in
\* its info payload, that text and the id of item i.
C19_OrderPreserved ==
    /\ Bound =>
          \A mref \in DOMAIN menus :
              With(TemplateMenu(app.menu, mref).items, LAMBDA templates :
                  /\ Len(menus[mref].items) = Len(templates)
                  /\ \A i \in 1..Len(menus[mref].items) :
                        /\ items[menus[mref].items[i]].kind = templates[i].kind
                        /\ items[menus[mref].items[i]].text = templates[i].text
                        /\ items[menus[mref].items[i]].id =
                              ResolvedId(templates[i], menus[mref].id, i))
    /\ \A j \in Events("render") :
          /\ Len(trace[j].text.rows) = Len(menus[trace[j].at].items)
          /\ \A i \in 1..Len(trace[j].text.rows) :
                With(JsonLoads(B64Decode(trace[j].text.rows[i].info)), LAMBDA info :
                    /\ trace[j].text.rows[i].text =
                          Item_render(World, menus[trace[j].at].items[i])
                    /\ DictGet(info, "text") = JStr(trace[j].text.rows[i].text)
                    /\ DictGet(info, "id") = JList(items[menus[trace[j].at].items[i]].id))

\* the tasks completed last first: in a menu of three items of different
\* texts the third item loaded before the first, and the rows are in order
C19_Witness ==
    /\ Routed
    /\ sched = "lifo"
    /\ \E j \in Events("render") : \E a, b \in Events("load") :
          /\ a < b /\ b < j
          /\ Len(menus[trace[j].at].items) >= 3
          /\ trace[a].at = menus[trace[j].at].items[3]
          /\ trace[b].at = menus[trace[j].at].items[1]
          /\ trace[j].text.rows[1].text # trace[j].text.rows[3].text
          /\ trace[j].text.rows[1].text = Item_render(World, menus[trace[j].at].items[1])

\* the bound NestedMenu items
NestedRefs == {r \in DOMAIN items : items[r].kind = "NestedMenu"}
\* the ids of the bound tree are the ones build resolves
IdsBound ==
    /\ menus[RootRef].id = app.menu_id
    /\ \A mref \in DOMAIN menus : \A i \in 1..Len(menus[mref].items) :
          /\ TemplateItem(app.menu, mref \o <<i>>).id # NoId =>
                items[menus[mref].items[i]].id = TemplateItem(app.menu, mref \o <<i>>).id
          /\ TemplateItem(app.menu, mref \o <<i>>).id = NoId =>
                items[menus[mref].items[i]].id = menus[mref].id \o <<ToString(i - 1)>>
          /\ items[menus[mref].items[i]].parent_menu = mref
    /\ \A r \in NestedRefs :
          /\ menus[items[r].sub_menu].id = items[r].id
          /\ \A c \in ItemRefs(items[r].sub_menu) :
                TemplateItem(app.menu, c).id = NoId =>
                    /\ PrefixOf(items[r].id, items[c].id)
                    /\ Len(items[c].id) = Len(items[r].id) + 1

\* C20: Menu.build binds the item at position i to the id of the menu
\* followed by the index of the position, unless its template carries an
\* explicit id, which is kept; the sub-menu of a bound NestedMenu has the
\* id the NestedMenu was bound to, so every item of the sub-menu without an
\* explicit id has an id that extends it; and no step of an invocation,
\* build included, changes the templates.
C20_BuildBindsIds ==
    /\ [](Bound => IdsBound)
    /\ [][app' = app]_vars

\* a tree was built under the root id "root" in which a NestedMenu of an
\* explicit id has a sub-menu with a positional item, whose id extends the
\* explicit id and not the path of positions, and the template still has
\* no id for it
C20_Witness ==
    /\ Bound
    /\ app.menu_id = <<"root">>
    /\ app.menu \in Templates
    /\ \E r \in NestedRefs : \E i \in 1..Len(menus[items[r].sub_menu].items) :
          /\ TemplateItem(app.menu, r).id = <<"settings">>
          /\ items[r].id = <<"settings">>
          /\ TemplateItem(app.menu, r \o <<i>>).id = NoId
          /\ TemplateItem(app.menu, r \o <<i>>).parent_menu = NoRef
          /\ items[menus[items[r].sub_menu].items[i]].id = <<"settings", ToString(i - 1)>>
          /\ items[menus[items[r].sub_menu].items[i]].parent_menu = items[r].sub_menu

\* the kinds of item the library defines
BuiltInKinds == {"Item", "Delimiter", "BackItem", "ExitItem", "NestedMenu"}
\* the bound tree holds items of the built-in kinds only
BuiltInTree == \A r \in DOMAIN items : items[r].kind \in BuiltInKinds
\* the root's propagate_select has returned the Operation op
RootSelected == Routed /\ selected_id(ms) # JNull /\ EventsAt("propagate_select", RootRef) # {}

\* the Operation the root returned is one the root may return
RootOperation ==
    /\ op.code # OP_REFRESH_MENU
    /\ op.code = OP_BACK_TO_PARENT_MENU <=>
          \E r \in Handled(RootRef) : items[r].kind = "BackItem"
    /\ op.code # OP_BACK_TO_PARENT_MENU =>
          \/ op.code = OP_EXIT
          \/ /\ op.code = OP_OUTPUT
             /\ \E j \in Events("render") : trace[j].text = op.data

\* C21: in a bound tree of the built-in kinds, whatever the selected_id,
\* the Operation the root menu's propagate_select returns is never
\* REFRESH_MENU; it is BACK_TO_PARENT_MENU exactly when the item whose
\* handle_select the root called is a BackItem of the root menu, and
\* otherwise it is EXIT or an OUTPUT that carries a rendered text.
C21_RootNeverRefresh == []((RootSelected /\ BuiltInTree) => RootOperation)

\* a BackItem in the sub-menu of a NestedMenu of the root was selected in a
\* tree of the built-in kinds: its BACK_TO_PARENT_MENU reached the
\* NestedMenu, and the root returned an OUTPUT
C21_Witness ==
    /\ RootSelected
    /\ BuiltInTree
    /\ op.code = OP_OUTPUT
    /\ \E k \in HandledKind({"BackItem"}) : \E h \in Events("return") :
          /\ Len(trace[k].at) = 2
          /\ trace[h].at = Front(trace[k].at)
          /\ trace[h].op.code = OP_BACK_TO_PARENT_MENU
          /\ Handled(RootRef) = {Front(trace[k].at)}

\* the BackItem selected is an item of the root: the root returns its
\* BACK_TO_PARENT_MENU
C21_RootBack ==
    /\ RootSelected
    /\ BuiltInTree
    /\ op.code = OP_BACK_TO_PARENT_MENU
    /\ \E r \in Handled(RootRef) : items[r].kind = "BackItem"

====
